---------------------------- MODULE Spec2Model ----------------------------
(***************************************************************************)
(* dhcp-hosts-updater: the reconciliation of a DHCP server's hosts         *)
(* (map[string]net.IP) against the parsed hosts file (hostess.Hostlist),    *)
(* as done by updateHostsFile and removeHostsThatMatchIPAndNotDomain in     *)
(* pkg/host/updater.go (host.go ranges over the same map with the same      *)
(* body; main.go runs the same body over a []Host slice).                   *)
(*                                                                         *)
(* The Hostlist methods the loop calls (ContainsIP, FilterByIP, Enable,     *)
(* IndexOf, Remove, Add) belong to github.com/cbednarski/hostess; they are  *)
(* modelled by what that library does, at the call sites that use them:     *)
(*   Enable(domain)  enables every Hostname whose Domain == domain (exact   *)
(*                   string comparison, any IP);                            *)
(*   IndexOf(host)   first index whose Domain and IP equal host's, or -1;   *)
(*   Remove(index)   deletes that index, a no-op when out of range;         *)
(*   Add(host)       a Hostname equal to host keeps its place (enabled if   *)
(*                   either is), a Hostname with the same Domain and the    *)
(*                   same IP version is overwritten in place (last write    *)
(*                   wins), otherwise host is appended;                     *)
(*   Hostfile.Parse  adds every parsed Hostname with Add and reports each   *)
(*                   duplicate or conflict as an error, so a Hostlist that  *)
(*                   updateHostsFile goes on with holds no two Hostnames    *)
(*                   with the same Domain and the same IP version.          *)
(***************************************************************************)
EXTENDS Integers, Sequences, FiniteSets, TLC

\* ------------------------------------------------------------------ bounds
\* longest hosts file (number of Hostnames) the model reads
MaxTable == 3
\* largest number of (name, ip) pairs in the map the provider returns
MaxPairs == 2
\* largest number of errors hostfile.Parse reports
MaxErrs == 2
\* ------------------------------------------------------------------ values
\* host names: the empty name, two names equal up to letter case, and another
Names == {"", "a", "A", "b"}

\* net.IP values: two IPv4 addresses and one IPv6 address
Addrs == {"10.0.0.1", "10.0.0.2", "::1"}

\* hostess.Hostname.IPv6, set by hostess.NewHostname from the address text
IPv6(ip) == ip = "::1"

\* strings.ToLower on the model's names
ToLower(s) == CASE s = "A" -> "a"
                [] s = "B" -> "b"
                [] OTHER   -> s

\* hostess.Hostname{Domain, IP, Enabled}
Hostname(domain, ip, enabled) == [Domain |-> domain, IP |-> ip, Enabled |-> enabled]

Hostnames == {Hostname(d, ip, en) : d \in Names \ {""}, ip \in Addrs, en \in BOOLEAN}

\* hostess.Hostname.Equal: same Domain and same IP (Enabled is not compared)
Equal(a, b) == a.Domain = b.Domain /\ a.IP = b.IP

\* ----------------------------------------------------- hostess.Hostlist
\* Hostlist.ContainsIP
ContainsIP(h, ip) == \E i \in DOMAIN h : h[i].IP = ip

\* Hostlist.FilterByIP: a new slice of the Hostnames with this IP, in order
FilterByIP(h, ip) == SelectSeq(h, LAMBDA e : e.IP = ip)

\* Hostlist.Enable(domain): every Hostname whose Domain == domain is enabled
Enable(h, domain) ==
    [i \in DOMAIN h |-> IF h[i].Domain = domain
                        THEN [h[i] EXCEPT !.Enabled = TRUE]
                        ELSE h[i]]

\* Hostlist.IndexOf: the first index holding a Hostname Equal to host; 0 stands
\* for Go's -1 (indices are 1-based here)
IndexOf(h, host) ==
    IF \E i \in DOMAIN h : Equal(h[i], host)
    THEN CHOOSE i \in DOMAIN h :
            Equal(h[i], host) /\ \A j \in 1..(i - 1) : ~Equal(h[j], host)
    ELSE 0

\* Hostlist.Remove(index)
Remove(h, index) ==
    IF index \in DOMAIN h
    THEN SubSeq(h, 1, index - 1) \o SubSeq(h, index + 1, Len(h))
    ELSE h

\* Hostlist.Add: the first Hostname that is Equal to host, or has its Domain
\* and IP version, decides; with none, host is appended
AddHit(found, host) ==
    Equal(found, host) \/ (found.Domain = host.Domain /\ IPv6(found.IP) = IPv6(host.IP))

Add(h, host) ==
    IF \E i \in DOMAIN h : AddHit(h[i], host)
    THEN LET i == CHOOSE k \in DOMAIN h :
                     AddHit(h[k], host) /\ \A j \in 1..(k - 1) : ~AddHit(h[j], host)
         IN  IF Equal(h[i], host)
             THEN [h EXCEPT ![i].Enabled = h[i].Enabled \/ host.Enabled]
             ELSE [h EXCEPT ![i] = host]
    ELSE Append(h, host)

\* What Hostfile.Parse leaves when it reports no error: no duplicate, no conflict
Parsed(h) ==
    \A i, j \in DOMAIN h :
        i # j => ~(h[i].Domain = h[j].Domain /\ IPv6(h[i].IP) = IPv6(h[j].IP))

Hostlists ==
    UNION {{h \in [1..n -> Hostnames] : Parsed(h)} : n \in 0..MaxTable}

\* the maps a provider's GetHostsFn can return: names are keys, so unique
HostMaps ==
    UNION {[S -> Addrs] : S \in {T \in SUBSET Names : Cardinality(T) <= MaxPairs}}


\* ------------------------------------------------- pkg/host/updater.go
\* variant of SameDomain: the comparison without strings.ToLower
SameDomainExact(entry, domain) == entry.Domain = domain

\* updater.go:109  strings.ToLower(matchingEntry.Domain) == strings.ToLower(domain)
SameDomain(entry, domain) == ToLower(entry.Domain) = ToLower(domain)

\* updater.go:108-117, the loop over hosts.FilterByIP(ip): snap is the filtered
\* slice (taken once, before the loop), k the position in it, h the live list.
\* matchingEntry points at the Hostname the live list holds, so its Enabled is
\* read from h.
RECURSIVE ScanMatching(_, _, _, _, _)
ScanMatching(h, snap, k, domain, found) ==
    IF k > Len(snap)
    THEN [hosts |-> h, found |-> found]
    ELSE LET matchingEntry == snap[k]
         IN  IF SameDomain(matchingEntry, domain)
             THEN LET live == h[IndexOf(h, matchingEntry)]
                      h2   == IF ~live.Enabled THEN Enable(h, domain) ELSE h
                  IN  ScanMatching(h2, snap, k + 1, domain, TRUE)
             ELSE ScanMatching(Remove(h, IndexOf(h, matchingEntry)),
                               snap, k + 1, domain, found)

\* variant of ScanMatching: the loop written over the live list by index
\* instead of over the filtered slice, so that a removal makes the scan step
\* over the Hostname that moves into the removed one's place
RECURSIVE ScanLive(_, _, _, _, _)
ScanLive(h, ip, k, domain, found) ==
    IF k > Len(h)
    THEN [hosts |-> h, found |-> found]
    ELSE IF h[k].IP # ip
         THEN ScanLive(h, ip, k + 1, domain, found)
         ELSE IF SameDomain(h[k], domain)
              THEN ScanLive(IF ~h[k].Enabled THEN Enable(h, domain) ELSE h,
                            ip, k + 1, domain, TRUE)
              ELSE ScanLive(Remove(h, k), ip, k + 1, domain, found)

\* variant of removeHostsThatMatchIPAndNotDomain that scans the live list
removeHostsSkipping(h, ip, domain) == ScanLive(h, ip, 1, domain, FALSE)

\* updater.go:104-121: the list after the call and the value returned
removeHostsThatMatchIPAndNotDomain(h, ip, domain) ==
    IF ContainsIP(h, ip)
    THEN ScanMatching(h, FilterByIP(h, ip), 1, domain, FALSE)
    ELSE [hosts |-> h, found |-> FALSE]

\* variant of SkipName: the loop without its test for the empty name
SkipNever(name) == FALSE

\* updater.go:75-77  if name == "" { continue }
SkipName(name) == name = ""

\* updater.go:75-87, the body of the loop for one (name, ip) of the map
LoopBody(h, name, ip) ==
    IF SkipName(name)
    THEN h
    ELSE LET r == removeHostsThatMatchIPAndNotDomain(h, ip, name)
         IN  IF r.found
             THEN r.hosts
             ELSE Add(r.hosts, Hostname(name, ip, TRUE))

\* ------------------------------------------- internal/edgeos/edgeos.go
\* edgeos.go:27-31: the flags the provider declares as required
RequiredFlags == {"address", "username", "password"}

\* net.ParseIP on the address texts of a response
ParseIP(text) == IF text \in Addrs THEN text ELSE "<nil>"

\* one lease or static mapping of a decoded response
Lease(name, text) == [name |-> name, ip |-> text]

\* the decoded responses: the leases of all groups (edgeos.go:164-168), the
\* static mappings of all subnets (edgeos.go:190-196); a name can occur in
\* several groups or subnets, the empty client-hostname included
Responses ==
    {r \in SUBSET {Lease(n, a) : n \in Names, a \in Addrs} :
        Cardinality(r) <= MaxPairs}

\* the orders in which the nested ranges can reach the elements of S
Iterations(S) ==
    {f \in [1..Cardinality(S) -> S] : \A i, j \in DOMAIN f : i # j => f[i] # f[j]}

\* hosts[name] = ip on a Go map
Put(h, name, ip) == [n \in DOMAIN h \cup {name} |-> IF n = name THEN ip ELSE h[n]]

\* edgeos.go:164-168, 190-196: the loops write each pair in turn
RECURSIVE Written(_, _, _)
Written(h, ord, k) ==
    IF k > Len(ord)
    THEN h
    ELSE Written(Put(h, ord[k].name, ParseIP(ord[k].ip)), ord, k + 1)

\* what a populate step's request can run into
PopulateErrors == {"request", "status", "decode"}

\* variant of populateDynamicHosts and populateStaticHosts: what was decoded
\* is written before the error is looked at
populateEagerly(h, outcome, ord) == Written(h, ord, 1)

\* edgeos.go:147-171: the map after the call; every error returns before the
\* loop
populateDynamicHosts(h, outcome, ord) ==
    IF outcome = "ok" THEN Written(h, ord, 1) ELSE h

\* edgeos.go:173-199: the map after the call; every error returns before the
\* loop
populateStaticHosts(h, outcome, ord) ==
    IF outcome = "ok" THEN Written(h, ord, 1) ELSE h

\* ------------------------------------- pkg/host/updater.go, Update
\* variant of ParseFailed: the errors of Parse are not looked at
ParseIgnored(n) == FALSE

\* updater.go:70  len(errs) != 0
ParseFailed(n) == n # 0

\* ------------------------------------------------------------------- state
VARIABLES
    hosts,      \* the map[string]net.IP passed to updateHostsFile
    table,      \* hostfile.Hosts
    todo,       \* keys of hosts the range loop has not visited yet
    pc,         \* "loop": in the range loop; "done": the loop has ended
    call,       \* which reconcile call this is: the first or the second
    loaded,     \* hostfile.Hosts as parsed, before the first call's loop
    first,      \* hostfile.Hosts when the first call's loop ended
    prev,       \* hostfile.Hosts before the pair visited last
    last,       \* the pair visited last, or NoPair
    flags,      \* keys of the flags map Update passes to GetHostsFn
    before,     \* the hosts map when the populate step run last was entered
    resp,       \* what the populate step run last decoded
    step,       \* the populate step run last and the error it returned
    fetched,    \* what GetHostsFn returned to Update
    file,       \* calls of hostfile.Read, Parse and Save and their results
    ret         \* what Update returned

vars == <<hosts, table, todo, pc, call, loaded, first, prev, last,
          flags, before, resp, step, fetched, file, ret>>

\* the variables of Update's run around the loop
around == <<flags, before, resp, step, fetched, file, ret>>

NoFlags == {}

NoHosts == [n \in {} |-> "10.0.0.1"]

NoStep == [fn |-> "none", err |-> "none"]

NotFetched == [returned |-> FALSE, isNil |-> FALSE, err |-> FALSE]

Unread == [reads |-> 0, readErr |-> FALSE, parses |-> 0, errs |-> 0, saves |-> 0]

NotReturned == [returned |-> FALSE, err |-> FALSE, carried |-> 0]

\* the loop entered directly: nothing around it is running
LoopOnly ==
    /\ flags = NoFlags
    /\ before = NoHosts
    /\ resp = {}
    /\ step = NoStep
    /\ fetched = NotFetched
    /\ file = Unread
    /\ ret = NotReturned

NoPair == [name |-> "", ip |-> "none"]

Pair(name) == [name |-> name, ip |-> hosts[name]]

\* updater.go:62-73: the map is any a provider returns, the list any Parse
\* accepts
Init ==
    /\ hosts \in HostMaps
    /\ table \in Hostlists
    /\ todo = DOMAIN hosts
    /\ pc = "loop"
    /\ call = 1
    /\ loaded = table
    /\ first = << >>
    /\ prev = table
    /\ last = NoPair
    /\ LoopOnly

Visit(name) ==
    /\ table' = LoopBody(table, name, hosts[name])
    /\ todo' = todo \ {name}
    /\ prev' = table
    /\ last' = Pair(name)
    /\ UNCHANGED <<hosts, pc, call, loaded, first>>
    /\ UNCHANGED around

\* updater.go:74-77: range picks a key in any order; the empty name is skipped
LoopSkip ==
    /\ pc = "loop"
    /\ \E name \in todo :
          /\ SkipName(name)
          /\ Visit(name)

\* updater.go:79-81: an entry for the ip has the domain
LoopFound ==
    /\ pc = "loop"
    /\ \E name \in todo :
          /\ ~SkipName(name)
          /\ removeHostsThatMatchIPAndNotDomain(table, hosts[name], name).found
          /\ Visit(name)

\* updater.go:83-87: no entry for the ip has the domain, the host is added
LoopAdd ==
    /\ pc = "loop"
    /\ \E name \in todo :
          /\ ~SkipName(name)
          /\ ~removeHostsThatMatchIPAndNotDomain(table, hosts[name], name).found
          /\ Visit(name)

\* updater.go:88: the range is exhausted
LoopExit ==
    /\ pc = "loop"
    /\ todo = {}
    /\ pc' = "done"
    /\ first' = IF call = 1 THEN table ELSE first
    /\ UNCHANGED <<hosts, table, todo, call, loaded, prev, last>>
    /\ UNCHANGED around

\* updater.go:74: the loop is entered again, with the same map, on the list the
\* previous call produced
CallAgain ==
    /\ pc = "done"
    /\ call = 1
    /\ call' = 2
    /\ pc' = "loop"
    /\ todo' = DOMAIN hosts
    /\ prev' = table
    /\ last' = NoPair
    /\ UNCHANGED <<hosts, table, loaded, first>>
    /\ UNCHANGED around

\* one call of updateHostsFile's loop
Next == LoopSkip \/ LoopFound \/ LoopAdd \/ LoopExit

Spec == Init /\ [][Next]_vars

\* the loop, and the loop once more on the list it produced
NextTwice == LoopSkip \/ LoopFound \/ LoopAdd \/ LoopExit \/ CallAgain

SpecTwice == Init /\ [][NextTwice]_vars

\* ----------------------------------- Update with the EdgeOS provider
loopvars == <<table, todo, call, loaded, first, prev, last>>

\* updater.go:54: Update is called with any of the provider's required flags
\* present or missing
InitUpdate ==
    /\ flags \in SUBSET RequiredFlags
    /\ pc = "update"
    /\ hosts = NoHosts
    /\ table = << >>
    /\ todo = {}
    /\ call = 1
    /\ loaded = << >>
    /\ first = << >>
    /\ prev = << >>
    /\ last = NoPair
    /\ before = NoHosts
    /\ resp = {}
    /\ step = NoStep
    /\ fetched = NotFetched
    /\ file = Unread
    /\ ret = NotReturned

\* updater.go:55: GetHostsFn is called with the flags as they are
CallGetHostsFn ==
    /\ pc = "update"
    /\ pc' = "newClient"
    /\ UNCHANGED <<hosts, flags, before, resp, step, fetched, file, ret>>
    /\ UNCHANGED loopvars

\* edgeos.go:33-36, 119-139: the cookie jar or the login request fails
NewClientFails ==
    /\ pc = "newClient"
    /\ step' = [fn |-> "newClient", err |-> "request"]
    /\ pc' = "failed"
    /\ UNCHANGED <<hosts, flags, before, resp, fetched, file, ret>>
    /\ UNCHANGED loopvars

\* edgeos.go:33, 38: the login request went out, which takes an address, and
\* the empty map is made
NewClient ==
    /\ pc = "newClient"
    /\ "address" \in flags
    /\ hosts' = NoHosts
    /\ pc' = "dynamic"
    /\ UNCHANGED <<flags, before, resp, step, fetched, file, ret>>
    /\ UNCHANGED loopvars

\* edgeos.go:39-41, 147-162: the request for the leases fails, answers with
\* another status than 200, or its body cannot be decoded to the end
DynamicFails ==
    /\ pc = "dynamic"
    /\ \E outcome \in PopulateErrors :
       \E r \in IF outcome = "decode" THEN Responses ELSE {{}} :
       \E ord \in Iterations(r) :
          /\ hosts' = populateDynamicHosts(hosts, outcome, ord)
          /\ resp' = r
          /\ step' = [fn |-> "dynamic", err |-> outcome]
    /\ before' = hosts
    /\ pc' = "failed"
    /\ UNCHANGED <<flags, fetched, file, ret>>
    /\ UNCHANGED loopvars

\* edgeos.go:39, 147-171: the leases are decoded and written
Dynamic ==
    /\ pc = "dynamic"
    /\ \E r \in Responses :
       \E ord \in Iterations(r) :
          /\ hosts' = populateDynamicHosts(hosts, "ok", ord)
          /\ resp' = r
    /\ before' = hosts
    /\ step' = [fn |-> "dynamic", err |-> "none"]
    /\ pc' = "static"
    /\ UNCHANGED <<flags, fetched, file, ret>>
    /\ UNCHANGED loopvars

\* edgeos.go:42-44, 173-188: the same for the static mappings
StaticFails ==
    /\ pc = "static"
    /\ \E outcome \in PopulateErrors :
       \E r \in IF outcome = "decode" THEN Responses ELSE {{}} :
       \E ord \in Iterations(r) :
          /\ hosts' = populateStaticHosts(hosts, outcome, ord)
          /\ resp' = r
          /\ step' = [fn |-> "static", err |-> outcome]
    /\ before' = hosts
    /\ pc' = "failed"
    /\ UNCHANGED <<flags, fetched, file, ret>>
    /\ UNCHANGED loopvars

\* edgeos.go:42, 173-199: the static mappings are decoded and written; the
\* model follows maps of up to MaxPairs names
Static ==
    /\ pc = "static"
    /\ \E r \in Responses :
       \E ord \in Iterations(r) :
          /\ hosts' = populateStaticHosts(hosts, "ok", ord)
          /\ resp' = r
    /\ Cardinality(DOMAIN hosts') <= MaxPairs
    /\ before' = hosts
    /\ step' = [fn |-> "static", err |-> "none"]
    /\ pc' = "fetched"
    /\ UNCHANGED <<flags, fetched, file, ret>>
    /\ UNCHANGED loopvars

\* edgeos.go:35, 40, 43 and updater.go:56-58: GetHostsFn returns nil and the
\* error, Update returns an error wrapping it
GetHostsFnError ==
    /\ pc = "failed"
    /\ fetched' = [returned |-> TRUE, isNil |-> TRUE, err |-> TRUE]
    /\ ret' = [returned |-> TRUE, err |-> TRUE, carried |-> 0]
    /\ pc' = "returned"
    /\ UNCHANGED <<hosts, flags, before, resp, step, file>>
    /\ UNCHANGED loopvars

\* edgeos.go:46 and updater.go:59: GetHostsFn returns the map and Update hands
\* it to updateHostsFile, which takes no flags; the populate steps' locals
\* are gone
GetHostsFnReturns ==
    /\ pc = "fetched"
    /\ fetched' = [returned |-> TRUE, isNil |-> FALSE, err |-> FALSE]
    /\ flags' = NoFlags
    /\ before' = NoHosts
    /\ resp' = {}
    /\ step' = NoStep
    /\ pc' = "read"
    /\ UNCHANGED <<hosts, file, ret>>
    /\ UNCHANGED loopvars

\* updater.go:64-67: hostfile.Read fails and its error is returned
ReadFails ==
    /\ pc = "read"
    /\ file' = [file EXCEPT !.reads = 1, !.readErr = TRUE]
    /\ ret' = [returned |-> TRUE, err |-> TRUE, carried |-> 0]
    /\ pc' = "returned"
    /\ UNCHANGED <<hosts, flags, before, resp, step, fetched>>
    /\ UNCHANGED loopvars

\* updater.go:64: hostfile.Read succeeds
Read ==
    /\ pc = "read"
    /\ file' = [file EXCEPT !.reads = 1]
    /\ pc' = "parse"
    /\ UNCHANGED <<hosts, flags, before, resp, step, fetched, ret>>
    /\ UNCHANGED loopvars

\* updater.go:69-74: hostfile.Parse fills the list and reports n errors; with
\* any error updateHostsFile returns one error that prints them all, with
\* none it enters the loop
Parse ==
    /\ pc = "parse"
    /\ \E n \in 0..MaxErrs :
       \E h \in Hostlists :
          /\ file' = [file EXCEPT !.parses = 1, !.errs = n]
          /\ table' = h
          /\ loaded' = h
          /\ prev' = h
          /\ IF ParseFailed(n)
             THEN /\ ret' = [returned |-> TRUE, err |-> TRUE, carried |-> n]
                  /\ pc' = "returned"
                  /\ todo' = todo
             ELSE /\ ret' = ret
                  /\ pc' = "loop"
                  /\ todo' = DOMAIN hosts
    /\ UNCHANGED <<hosts, flags, before, resp, step, fetched, call, first, last>>

\* updater.go:90-98: the list is dumped to standard output and nil is
\* returned; the call of hostfile.Save is commented out
ReturnNil ==
    /\ pc = "done"
    /\ ret' = [returned |-> TRUE, err |-> FALSE, carried |-> 0]
    /\ pc' = "returned"
    /\ UNCHANGED <<hosts, flags, before, resp, step, fetched, file>>
    /\ UNCHANGED loopvars

\* one call of Updater.Update for the EdgeOS provider
NextUpdate ==
    \/ CallGetHostsFn
    \/ NewClientFails
    \/ NewClient
    \/ DynamicFails
    \/ Dynamic
    \/ StaticFails
    \/ Static
    \/ GetHostsFnError
    \/ GetHostsFnReturns
    \/ ReadFails
    \/ Read
    \/ Parse
    \/ LoopSkip
    \/ LoopFound
    \/ LoopAdd
    \/ LoopExit
    \/ ReturnNil

SpecUpdate == InitUpdate /\ [][NextUpdate]_vars

\* ---------------------------------------------------------- model sanity
TypeOK ==
    /\ hosts \in HostMaps
    /\ table \in Seq(Hostnames \cup {Hostname("", ip, TRUE) : ip \in Addrs})
    /\ todo \subseteq DOMAIN hosts
    /\ pc \in {"update", "newClient", "dynamic", "static", "failed", "fetched",
              "read", "parse", "loop", "done", "returned"}
    /\ call \in {1, 2}

\* Add keeps the list free of duplicates and conflicts, so a Hostname is
\* identified by its Domain and IP
StaysParsed == Parsed(table)


\* ------------------------------------------------------- claim vocabulary
\* names equal up to letter case
EqualFold(a, b) == ToLower(a) = ToLower(b)

\* the list holds a Hostname with e's Domain and IP (whatever its Enabled)
InTable(t, e) == \E j \in DOMAIN t : t[j].Domain = e.Domain /\ t[j].IP = e.IP

\* indices of the Hostnames with this ip, and of those among them that carry
\* (or do not carry) this name up to case
AtIP(t, ip) == {i \in DOMAIN t : t[i].IP = ip}

Matching(t, ip, name) == {i \in AtIP(t, ip) : EqualFold(t[i].Domain, name)}

NotMatching(t, ip, name) == {i \in AtIP(t, ip) : ~EqualFold(t[i].Domain, name)}

\* a pair has been visited since the call began
Visited == last # NoPair

\* the loop of a call has ended
Reconciled == pc = "done"

\* the non-empty names of the map
RealNames == DOMAIN hosts \ {""}

AsSet(t) == {t[i] : i \in DOMAIN t}

\* the orders in which range can visit the keys of the map
Orders(S) ==
    {f \in [1..Cardinality(S) -> S] : \A i, j \in DOMAIN f : i # j => f[i] # f[j]}

\* updater.go:74-88 run over the keys in the order ord
RECURSIVE RunLoop(_, _, _)
RunLoop(h, ord, k) ==
    IF k > Len(ord) THEN h ELSE RunLoop(LoopBody(h, ord[k], hosts[ord[k]]), ord, k + 1)

\* ------------------------------------------------------------------ claims
\* C1 (as claimed): when the parsed list holds a Hostname with a pair's ip and
\* its name up to case, that Hostname is still in the list when the loop has
\* ended, and the list holds no more Hostnames with this ip and name than
\* before.
C1_MatchedEntrySurvives ==
    Reconciled =>
        \A n \in RealNames : \A i \in Matching(loaded, hosts[n], n) :
            /\ InTable(table, loaded[i])
            /\ Cardinality(Matching(table, hosts[n], n))
                   <= Cardinality(Matching(loaded, hosts[n], n))

\* C2 (as claimed): a disabled Hostname whose ip is a pair's ip and whose name
\* is the pair's name up to case is, when the loop has ended, in the list
\* under its stored name and enabled.
C2_ReenableOnMatch ==
    Reconciled =>
        \A i \in DOMAIN loaded :
            (/\ ~loaded[i].Enabled
             /\ \E n \in DOMAIN hosts :
                   hosts[n] = loaded[i].IP /\ EqualFold(loaded[i].Domain, n))
            => \E j \in DOMAIN table :
                   /\ table[j].Domain = loaded[i].Domain
                   /\ table[j].IP = loaded[i].IP
                   /\ table[j].Enabled

\* the parsed list holds Hostnames with n's ip, none with n's name up to case
StaleOnly(n) ==
    /\ AtIP(loaded, hosts[n]) # {}
    /\ Matching(loaded, hosts[n], n) = {}

\* every Hostname the parsed list held at n's ip is gone and {n, ip, enabled}
\* is in the list
Evicted(n) ==
    /\ \A i \in AtIP(loaded, hosts[n]) : ~InTable(table, loaded[i])
    /\ \E j \in DOMAIN table : table[j] = Hostname(n, hosts[n], TRUE)

SoleNameOfIP(n) == \A m \in RealNames \ {n} : hosts[m] # hosts[n]

C4_FreshAddressAppended ==
    (Visited /\ last.name # "" /\ AtIP(prev, last.ip) = {})
        => table = Append(prev, Hostname(last.name, last.ip, TRUE))

\* C5 (as claimed): a Hostname whose ip is no pair's ip is, when the loop has
\* ended, in the list with the same Domain, IP and Enabled.
C5_UnrelatedUntouched ==
    Reconciled =>
        \A i \in DOMAIN loaded :
            (\A n \in DOMAIN hosts : hosts[n] # loaded[i].IP)
            => \E j \in DOMAIN table : table[j] = loaded[i]

\* C6: the visit of a pair whose name is empty leaves the list exactly as it
\* was, and the list never holds a Hostname with an empty Domain.
C6_EmptyNameSkip ==
    /\ (Visited /\ last.name = "") => table = prev
    /\ \A j \in DOMAIN table : table[j].Domain # ""

\* C6 witness: a pair with the empty name was visited while the list held
\* Hostnames with that pair's ip, and the list is as it was.
C6_Witness ==
    /\ Visited /\ last.name = ""
    /\ AtIP(prev, last.ip) # {}
    /\ table = prev

\* C7 (as claimed): the second call's loop, on the list the first produced and
\* with the same map, ends with the list exactly as the first call left it.
C7_Idempotent ==
    (Reconciled /\ call = 2) => table = first

\* C8 (as claimed): a Hostname in the list before and after the loop is not
\* enabled before and disabled after, and is disabled before and enabled after
\* only if its ip and its name up to case are those of a pair.
C8_EnabledFlag ==
    Reconciled =>
        \A i \in DOMAIN loaded : \A j \in DOMAIN table :
            (table[j].Domain = loaded[i].Domain /\ table[j].IP = loaded[i].IP)
            => /\ loaded[i].Enabled => table[j].Enabled
               /\ (~loaded[i].Enabled /\ table[j].Enabled)
                      => \E n \in DOMAIN hosts :
                            hosts[n] = loaded[i].IP /\ EqualFold(loaded[i].Domain, n)

\* the pairs of the map have pairwise distinct ips
DistinctIPs == \A m, n \in DOMAIN hosts : m # n => hosts[m] # hosts[n]

\* C9 (as claimed): for a map whose pairs have pairwise distinct ips, every
\* order of visiting the pairs ends with the same set of Hostnames.
C9_OrderIndependent ==
    (Reconciled /\ DistinctIPs) =>
        \A ord \in Orders(DOMAIN hosts) :
            AsSet(RunLoop(loaded, ord, 1)) = AsSet(table)

\* the list before the visit held, at the visited pair's ip, Hostnames with the
\* pair's name up to case and Hostnames without
Mixed ==
    /\ Visited /\ last.name # ""
    /\ Matching(prev, last.ip, last.name) # {}
    /\ NotMatching(prev, last.ip, last.name) # {}

\* C10: after the visit of a pair that found its ip under its own name and
\* under other names, no Hostname with that ip and another name is left, every
\* Hostname with that ip and the name is kept, every Hostname with another ip
\* is kept, and no Hostname was added.
C10_MultiAliasCollapse ==
    Mixed =>
        /\ NotMatching(table, last.ip, last.name) = {}
        /\ \A i \in Matching(prev, last.ip, last.name) : InTable(table, prev[i])
        /\ \A i \in DOMAIN prev : prev[i].IP # last.ip => InTable(table, prev[i])
        /\ \A j \in DOMAIN table : InTable(prev, table[j])
        /\ Len(table) = Len(prev) - Cardinality(NotMatching(prev, last.ip, last.name))

\* C10 witness: the visited pair found two Hostnames in a row with its ip and
\* other names, and one with its name; only the latter is left.
C10_Witness ==
    /\ Mixed
    /\ \E i \in DOMAIN prev :
          {i, i + 1} \subseteq NotMatching(prev, last.ip, last.name)
    /\ Len(prev) = 3
    /\ Len(table) = 1

\* the position in t of the Hostname with e's Domain and IP
PosIn(t, e) == CHOOSE j \in DOMAIN t : t[j].Domain = e.Domain /\ t[j].IP = e.IP

\* C11 (as claimed): when the loop has ended, the Hostnames of the parsed list
\* that are still in the list stand in the order they had, and every Hostname
\* the loop added stands after all of them.
C11_OrderPreserved ==
    Reconciled =>
        /\ \A i, j \in DOMAIN loaded :
              (i < j /\ InTable(table, loaded[i]) /\ InTable(table, loaded[j]))
              => PosIn(table, loaded[i]) < PosIn(table, loaded[j])
        /\ \A k, m \in DOMAIN table :
              (~InTable(loaded, table[k]) /\ InTable(loaded, table[m])) => m < k

\* the non-empty names the map gives to ip
NamesOfIP(ip) == {n \in RealNames : hosts[n] = ip}

\* C16: when the loop has ended, all Hostnames with an ip that the map gives to
\* a non-empty name carry one name up to case, the name of a pair with that ip.
C16_OneNamePerAddress ==
    Reconciled =>
        \A n \in RealNames :
            /\ \A i, j \in AtIP(table, hosts[n]) :
                  EqualFold(table[i].Domain, table[j].Domain)
            /\ \A i \in AtIP(table, hosts[n]) :
                  \E m \in NamesOfIP(hosts[n]) : EqualFold(table[i].Domain, m)

\* C16 witness: the loop has ended on a map that gives one ip to two names; the
\* parsed list held that ip under two names, one of them in no pair, and the
\* list now holds it under one.
C16_Witness ==
    /\ Reconciled
    /\ \E n \in RealNames :
          /\ Cardinality(NamesOfIP(hosts[n])) = 2
          /\ Cardinality(AtIP(loaded, hosts[n])) = 2
          /\ \E i \in AtIP(loaded, hosts[n]) :
                \A m \in NamesOfIP(hosts[n]) : ~EqualFold(loaded[i].Domain, m)
          /\ Cardinality(AtIP(table, hosts[n])) = 1

\* Update has returned nil
Succeeded == ret.returned /\ ~ret.err

\* C12 (as claimed): a run of Update in which GetHostsFn, Read and Parse all
\* succeed invokes Save exactly once, after the loop has visited every pair,
\* and never returns nil without having saved.
C12_SavedOnceAfterLoop ==
    /\ Succeeded => file.saves = 1
    /\ file.saves <= 1
    /\ file.saves > 0 => (todo = {} /\ pc = "returned")

\* GetHostsFn has returned an error to Update
FetchFailed == fetched.returned /\ fetched.err

\* no pair has been visited: the list is as Parse left it
NothingReconciled == last = NoPair /\ table = loaded /\ pc # "loop" /\ pc # "done"

\* C13: when GetHostsFn has returned an error, the hosts file has not been
\* read, parsed, reconciled or saved and Update has returned an error; when
\* Read has failed or Parse has reported errors, no pair has been visited,
\* Save has not been invoked, and the error returned carries every error
\* Parse reported.
C13_AbortOnFailure ==
    /\ FetchFailed =>
          /\ file.reads = 0
          /\ file.parses = 0
          /\ NothingReconciled
          /\ file.saves = 0
          /\ ret.returned /\ ret.err
    /\ (file.readErr \/ file.errs > 0) =>
          /\ NothingReconciled
          /\ file.saves = 0
          /\ ret.returned /\ ret.err
          /\ ret.carried = file.errs
    /\ file.readErr => file.parses = 0

\* C13 witness: Parse reported more than one error on a hosts file with
\* entries, for a map with pairs, and Update returned them all.
C13_Witness ==
    /\ file.errs > 1
    /\ ret.returned /\ ret.err
    /\ ret.carried = file.errs
    /\ loaded # << >>
    /\ DOMAIN hosts # {}

\* GetHostsFn is running or about to return
InGetHostsFn == pc \in {"newClient", "dynamic", "static", "failed", "fetched"}

\* C14 (as claimed): GetHostsFn is called only with flags that hold every
\* required flag of the provider.
C14_RequiredFlagsValidated ==
    InGetHostsFn => \A f \in {"address", "username", "password"} : f \in flags

\* the names of the response the populate step decoded
RespNames == {p.name : p \in resp}

\* C15: a populate step that returned nil has written every pair it decoded
\* (of two pairs with one name the map holds either) and has left every other
\* key alone; a populate step that returned an error has left the map as it
\* was; and GetHostsFn returns nil together with an error exactly when the
\* construction of the client or a populate step failed, never going on.
C15_NoPartialSnapshot ==
    /\ (step.fn \in {"dynamic", "static"} /\ step.err = "none") =>
          /\ DOMAIN hosts = DOMAIN before \cup RespNames
          /\ \A n \in RespNames : \E p \in resp : p.name = n /\ hosts[n] = p.ip
          /\ \A n \in DOMAIN before \ RespNames : hosts[n] = before[n]
    /\ step.err # "none" =>
          /\ hosts = before
          /\ pc \in {"failed", "returned"}
          /\ fetched.returned => (fetched.err /\ fetched.isNil)
    /\ fetched.returned => (fetched.err <=> fetched.isNil)
    /\ (fetched.returned /\ fetched.err) => step.err # "none"

\* C15 witness: after the leases filled the map, the body of the static
\* mappings could not be decoded to the end; the map is as the leases left it
\* and GetHostsFn returned nil and the error.
C15_Witness ==
    /\ step = [fn |-> "static", err |-> "decode"]
    /\ resp # {}
    /\ DOMAIN before # {}
    /\ hosts = before
    /\ fetched.returned /\ fetched.isNil /\ fetched.err

=============================================================================
